---- MODULE Spec2Model ----
(***************************************************************************)
(* The guestbook comment store of next-js-backend-intro, in its two        *)
(* revisions of app/api/comments/route.ts:                                 *)
(*   "db"  - the persistent revision (src/app/api/comments/route.ts):      *)
(*           Prisma over one SQLite table Comment(id, text, createdAt);    *)
(*   "mem" - the in-memory revision (Session 2 of the tutorial, kept in    *)
(*           src/app/guestbook/page.tsx lines 254-289): a module-level     *)
(*           array.                                                        *)
(* One revision is deployed in a behaviour (rev).  Requests are served by  *)
(* async handlers on one event loop: a handler runs without interruption   *)
(* from one await to the next, and other handlers run while it is          *)
(* suspended at an await.                                                  *)
(***************************************************************************)
EXTENDS Naturals, Sequences, FiniteSets, Bags

VARIABLES
    rev,       \* which revision of route.ts is deployed: "mem" or "db"
    comments,  \* mem: the module-level array `comments`
    table,     \* db: the rows of table Comment
    clock,     \* the wall clock in milliseconds (now(), new Date())
    reqs,      \* the request handlers in flight: a bag of handler records
    resp,      \* the response the last step sent, if it sent one
    acked,     \* history: the records returned with 201 by this store
    old,       \* history: the records acked before the last restart
    hb,        \* history: <<a, b>>: append of id a returned before that of b started
    order,     \* history: the ids in the order their records were created
    lastGet,   \* history: the last listing that completed with 200
    page,      \* the guestbook page: its React state (comments, newComment)
    calls,     \* the page's calls of fetchComments and handleSubmit, in the order made
    net        \* the responses on their way from the server to the page

vars == <<rev, comments, table, clock, reqs, resp, acked, old, hb, order, lastGet, page, calls, net>>

\* ------------------------------------------------------------- bounds
NumReq == 2      \* request handlers the server runs at once
MaxRows == 4     \* records a store holds
MaxClock == 1    \* milliseconds the clock advances
MaxSubmit == 2   \* times the form of the page is submitted

\* ------------------------------------------------------- JavaScript values
Undefined == [t |-> "undefined", v |-> ""]
Str(s) == [t |-> "string", v |-> s]
Num(n) == [t |-> "number", v |-> n]

\* The values of `text` a request body carries: absent, "", a non-empty
\* string, and the numbers 0 and 7 (JSON that is not a string).
TextValues == {Undefined, Str(""), Str("hi"), Num("0"), Num("7")}

\* A request body: json = FALSE is a body request.json() cannot parse.
Bodies == {[json |-> FALSE, text |-> Undefined]} \cup {[json |-> TRUE, text |-> v] : v \in TextValues}

\* a validation that only notices an absent text
FalsyUndefinedOnly(v) == v.t = "undefined"

\* JavaScript's !text
Falsy(v) == v.t = "undefined" \/ v = Str("") \/ v = Num("0")


\* ------------------------------------------------ the in-memory revision
\* const comments = [ {id: 1, ...}, {id: 2, ...} ]
InitialComments ==
    << [id |-> 1, text |-> Str("This is the first comment.")],
       [id |-> 2, text |-> Str("What a great series!")] >>

\* an id that forgets the + 1
NewIdLength(cs) == Len(cs)

\* id: comments.length + 1
NewId(cs) == Len(cs) + 1

\* const newComment = { id: comments.length + 1, text: text }
NewComment(cs, text) == [id |-> NewId(cs), text |-> text]

\* a push onto a copy of the array: the module's array never grows
PushToCopy(cs, r) == cs

\* a write over the last element instead of a push
PushOverLast(cs, r) == [cs EXCEPT ![Len(cs)] = r]

\* an unshift: the new element goes to the front of the array
Unshift(cs, r) == <<r>> \o cs

\* comments.push(newComment)
Push(cs, r) == Append(cs, r)

\* The module is loaded again by a restarted server: "a simple array that
\* will reset if the server restarts".
ReloadModule(cs) == InitialComments

\* ------------------------------------------------ the persistent revision
\* an id counted from the rows instead of taken above the largest id
AutoIncrementCount(rows) == Cardinality(rows)

\* id Int @id @default(autoincrement()): the engine assigns the next integer
\* above every id of the table (rows are never deleted).
AutoIncrement(rows) ==
    IF rows = {} THEN 1
    ELSE 1 + (CHOOSE m \in {r.id : r \in rows} : \A r \in rows : r.id <= m)

\* model Comment { id, text, createdAt DateTime @default(now()) }
CreateRow(rows, text, now) == [id |-> AutoIncrement(rows), text |-> text, createdAt |-> now]

\* a create that writes over the newest row instead of adding one
InsertOverNewest(rows, r) ==
    (rows \ {q \in rows : \A x \in rows : x.id <= q.id}) \cup {r}

\* a create that reports a row it never stores
InsertNothing(rows, r) == rows

\* the INSERT of prisma.comment.create
Insert(rows, r) == rows \cup {r}

\* a listing s precedes-or-equals by createdAt, newest first
Descending(s) == \A i \in 1..Len(s) : \A j \in 1..Len(s) : i < j => s[i].createdAt >= s[j].createdAt

\* prisma.comment.findMany({ orderBy: { createdAt: 'desc' } }): every row once,
\* newest first.  The order of rows with equal createdAt is the engine's: one
\* fixed order for one table content, not specified further.
RECURSIVE OrderByCreatedAtDesc(_)
OrderByCreatedAtDesc(rows) ==
    IF rows = {} THEN <<>>
    ELSE LET first == CHOOSE r \in rows : \A q \in rows : r.createdAt >= q.createdAt
         IN  <<first>> \o OrderByCreatedAtDesc(rows \ {first})

\* a listing in the opposite order: orderBy: { createdAt: 'asc' }
FindManyAscending(rows) ==
    [i \in 1..Cardinality(rows) |-> OrderByCreatedAtDesc(rows)[Cardinality(rows) + 1 - i]]

\* a listing cut to a page: take: 2
FindManyTake(rows) ==
    IF Cardinality(rows) <= 2 THEN OrderByCreatedAtDesc(rows)
    ELSE SubSeq(OrderByCreatedAtDesc(rows), 1, 2)

FindMany(rows) == OrderByCreatedAtDesc(rows)

\* a database that lives in the process: every start finds the seed only
ReopenDatabaseFresh(rows) ==
    { [id |-> 1, text |-> Str("This is the first comment."), createdAt |-> 0],
      [id |-> 2, text |-> Str("What a great series!"), createdAt |-> 0] }

\* DATABASE_URL="file:./dev.db": a restarted server opens the same file.
ReopenDatabase(rows) == rows

\* prisma/seed.ts: createMany of the two initial comments
SeedRows ==
    { [id |-> 1, text |-> Str("This is the first comment."), createdAt |-> 0],
      [id |-> 2, text |-> Str("What a great series!"), createdAt |-> 0] }

\* ------------------------------------------------------------ requests
NoBody == [json |-> TRUE, text |-> Undefined]

\* A handler that has just been called.
NewReq ==
    [ op |-> "GET",       \* "GET", "POST"
      from |-> 0,         \* the call of the page that sent the request, 0: another client
      pc |-> "start",     \* the await the handler is suspended at
      body |-> NoBody,    \* the request body
      rec |-> <<>>,       \* POST: newComment, once created
      list |-> <<>>,      \* GET: comments, once found
      seen |-> {},        \* history: acked when the request started
      size |-> 0,         \* history: records in the store when it was read
      made |-> 0,         \* history: records this handler added to the store
      raced |-> FALSE ]   \* history: a POST suspended together with this one has pushed

\* No response sent.
NoResp ==
    [ op |-> "none",      \* "none", "GET", "POST", "HELLO"
      status |-> 0,       \* the HTTP status
      error |-> "",       \* the body's { error }
      rec |-> <<>>,       \* the body's record (POST 201)
      list |-> <<>>,      \* the body's listing (GET 200)
      body |-> NoBody,    \* history: the request body
      seen |-> {},        \* history: acked when the request started
      size |-> 0,         \* history: records in the store when it was read
      made |-> 0,         \* history: records the handler added to the store
      raced |-> FALSE,    \* history: a POST suspended together with this one pushed first
      quiet |-> FALSE,    \* history: no 201 since this listing and the one before started
      same |-> FALSE,     \* history: this listing and the one before read equally many records
      eq |-> FALSE ]      \* history: this listing equals the one before

Ids(recs) == {r.id : r \in recs}

\* the handlers in flight, each once
InFlight == BagToSet(reqs)

\* the server takes another request
Free == BagCardinality(reqs) < NumReq

\* the handlers in flight with one more, with r gone, with r having become q
Started(q) == reqs (+) SetToBag({q})
Ended(r) == reqs (-) SetToBag({r})
Advanced(r, q) == (reqs (-) SetToBag({r})) (+) SetToBag({q})

\* records the deployed store holds
StoreSize == IF rev = "mem" THEN Len(comments) ELSE Cardinality(table)

\* POST handlers that may still create a record
Pending ==
    BagCardinality([r \in {q \in InFlight : q.op = "POST" /\ q.pc \in {"json", "create"}} |-> reqs[r]])

\* a POST handler suspended at request.json() sees another one push
Overtaken(q) == IF q.op = "POST" /\ q.pc = "json" THEN [q EXCEPT !.raced = TRUE] ELSE q

\* what a completed listing leaves for the next one to be compared with
Listed(list, seen, size) == <<[list |-> list, seen |-> seen, size |-> size]>>

\* NextResponse.json(comments): the listing's response, compared with the one before it
Respond200(list, seen, size) ==
    [NoResp EXCEPT !.op = "GET", !.status = 200, !.list = list, !.seen = seen, !.size = size,
                   !.quiet = lastGet # <<>> /\ lastGet[1].seen = acked /\ seen = acked,
                   !.same = lastGet # <<>> /\ lastGet[1].size = size,
                   !.eq = lastGet # <<>> /\ lastGet[1].list = list]

\* NextResponse.json(newComment, { status: 201 })
Respond201(r, newComment, made) ==
    [NoResp EXCEPT !.op = "POST", !.status = 201, !.rec = <<newComment>>, !.body = r.body,
                   !.seen = r.seen, !.made = made, !.raced = r.raced]

\* NextResponse.json({ error }, { status })
RespondError(r, status, error) ==
    [NoResp EXCEPT !.op = r.op, !.status = status, !.error = error, !.body = r.body,
                   !.seen = r.seen, !.made = r.made, !.raced = r.raced]

\* ------------------------------------------------------------ the page
\* useState<Comment[]>([]), useState(''): the page before its effect has run
NewPage ==
    [ mounted |-> FALSE,  \* useEffect(() => { fetchComments() }, []) has run
      comments |-> <<>>,  \* the state `comments`: the list the page displays
      newComment |-> "",  \* the state `newComment`: the value of the input
      crashed |-> FALSE,  \* comments.map threw in render: the page shows an error
      last |-> 0 ]        \* history: the call whose setComments(data) ran last

\* A call of fetchComments (from the effect) or of handleSubmit (from the form).
NewCall ==
    [ fn |-> "fetchComments",  \* "fetchComments", "handleSubmit"
      pc |-> "get",       \* the await the call is at: "post", "get"; "done", "rejected"
      text |-> "",        \* handleSubmit: the text it sent
      status |-> 0,       \* handleSubmit: the status of the POST's response
      rec |-> <<>>,       \* handleSubmit: the record of the POST's response (201)
      got |-> 0,          \* the status of the GET's response
      restarted |-> FALSE ] \* history: the server restarted after the call was made

\* the page takes no step
PageIdle == UNCHANGED <<page, calls, net>>

Init ==
    /\ page = NewPage
    /\ calls = <<>>
    /\ net = {}
    /\ rev \in {"mem", "db"}
    /\ comments = InitialComments
    /\ table = SeedRows
    /\ clock = 0
    /\ reqs = EmptyBag
    /\ resp = NoResp
    /\ acked = {}
    /\ old = {}
    /\ hb = {}
    /\ order = <<1, 2>>
    /\ lastGet = <<>>

\* ---- in-memory revision: export async function GET()
\* return NextResponse.json(comments): no await, the array is serialised at once.
MemGET ==
    /\ rev = "mem"
    /\ Free
    /\ resp' = Respond200(comments, acked, Len(comments))
    /\ lastGet' = Listed(comments, acked, Len(comments))
    /\ UNCHANGED <<rev, comments, table, clock, reqs, acked, old, hb, order>>

\* ---- both revisions: POST(request) up to `await request.json()`
POSTStart(b) ==
    /\ Free
    /\ StoreSize + Pending < MaxRows
    /\ reqs' = Started([NewReq EXCEPT !.op = "POST", !.pc = "json", !.body = b, !.seen = acked])
    /\ resp' = NoResp
    /\ UNCHANGED <<rev, comments, table, clock, acked, old, hb, order, lastGet>>

\* ---- in-memory revision: POST from the resolution of request.json() to its
\* return, one uninterrupted run: validation, id, push, response.
MemPOSTResume(r) ==
    /\ rev = "mem"
    /\ r.op = "POST" /\ r.pc = "json"
    /\ IF ~r.body.json
       THEN \* request.json() rejects and nothing catches it: the framework's 500
            /\ resp' = RespondError(r, 500, "Internal Server Error")
            /\ reqs' = Ended(r)
            /\ UNCHANGED <<comments, acked, hb, order>>
       ELSE IF Falsy(r.body.text)
       THEN /\ resp' = RespondError(r, 400, "Comment text is required")
            /\ reqs' = Ended(r)
            /\ UNCHANGED <<comments, acked, hb, order>>
       ELSE /\ comments' = Push(comments, NewComment(comments, r.body.text))
            /\ resp' = Respond201(r, NewComment(comments, r.body.text),
                                  Len(comments') - Len(comments))
            /\ reqs' = BagOfAll(Overtaken, Ended(r))
            /\ acked' = acked \cup {NewComment(comments, r.body.text)}
            /\ hb' = hb \cup (Ids(r.seen) \X {NewId(comments)})
            /\ order' = Append(order, NewId(comments))
    /\ UNCHANGED <<rev, table, clock, old, lastGet>>

\* ---- persistent revision: GET() up to `await prisma.comment.findMany(...)`
DbGETStart ==
    /\ rev = "db"
    /\ Free
    /\ reqs' = Started([NewReq EXCEPT !.op = "GET", !.pc = "findMany", !.seen = acked])
    /\ resp' = NoResp
    /\ UNCHANGED <<rev, comments, table, clock, acked, old, hb, order, lastGet>>

\* the engine answers the query
DbFindMany(r) ==
    /\ rev = "db"
    /\ r.op = "GET" /\ r.pc = "findMany"
    /\ reqs' = Advanced(r, [r EXCEPT !.pc = "found", !.list = FindMany(table),
                                     !.size = Cardinality(table)])
    /\ resp' = NoResp
    /\ UNCHANGED <<rev, comments, table, clock, acked, old, hb, order, lastGet>>

\* the query throws: catch (error) -> 500
DbFindManyFails(r) ==
    /\ rev = "db"
    /\ r.op = "GET" /\ r.pc = "findMany"
    /\ resp' = RespondError(r, 500, "Failed to fetch comments: " \o "PrismaClientKnownRequestError")
    /\ reqs' = Ended(r)
    /\ UNCHANGED <<rev, comments, table, clock, acked, old, hb, order, lastGet>>

\* return NextResponse.json(comments)
DbGETReturn(r) ==
    /\ rev = "db"
    /\ r.op = "GET" /\ r.pc = "found"
    /\ resp' = Respond200(r.list, r.seen, r.size)
    /\ lastGet' = Listed(r.list, r.seen, r.size)
    /\ reqs' = Ended(r)
    /\ UNCHANGED <<rev, comments, table, clock, acked, old, hb, order>>

\* ---- persistent revision: POST from the resolution of request.json() to
\* `await prisma.comment.create(...)`
DbPOSTParse(r) ==
    /\ rev = "db"
    /\ r.op = "POST" /\ r.pc = "json"
    /\ IF ~r.body.json
       THEN /\ resp' = RespondError(r, 500, "Failed to fetch comments: " \o "SyntaxError")
            /\ reqs' = Ended(r)
       ELSE IF Falsy(r.body.text)
       THEN /\ resp' = RespondError(r, 400, "Comment text is required")
            /\ reqs' = Ended(r)
       ELSE /\ reqs' = Advanced(r, [r EXCEPT !.pc = "create"])
            /\ resp' = NoResp
    /\ UNCHANGED <<rev, comments, table, clock, acked, old, hb, order, lastGet>>

\* prisma.comment.create({ data: { text } }): the client rejects a text that
\* is not a String (the handler's catch answers 500), else the row is inserted.
DbCreate(r) ==
    /\ rev = "db"
    /\ r.op = "POST" /\ r.pc = "create"
    /\ IF r.body.text.t # "string"
       THEN /\ resp' = RespondError(r, 500, "Failed to fetch comments: " \o "PrismaClientValidationError")
            /\ reqs' = Ended(r)
            /\ UNCHANGED <<table, hb, order>>
       ELSE /\ table' = Insert(table, CreateRow(table, r.body.text, clock))
            /\ reqs' = Advanced(r, [r EXCEPT !.pc = "created",
                                             !.rec = <<CreateRow(table, r.body.text, clock)>>,
                                             !.made = Cardinality(table') - Cardinality(table)])
            /\ hb' = hb \cup (Ids(r.seen) \X {AutoIncrement(table)})
            /\ order' = Append(order, AutoIncrement(table))
            /\ resp' = NoResp
    /\ UNCHANGED <<rev, comments, clock, acked, old, lastGet>>

\* the backing store fails: nothing is inserted, catch (error) -> 500
DbCreateFails(r) ==
    /\ rev = "db"
    /\ r.op = "POST" /\ r.pc = "create"
    /\ r.body.text.t = "string"
    /\ resp' = RespondError(r, 500, "Failed to fetch comments: " \o "PrismaClientKnownRequestError")
    /\ reqs' = Ended(r)
    /\ UNCHANGED <<rev, comments, table, clock, acked, old, hb, order, lastGet>>

\* return NextResponse.json(newComment, { status: 201 })
DbPOSTReturn(r) ==
    /\ rev = "db"
    /\ r.op = "POST" /\ r.pc = "created"
    /\ resp' = Respond201(r, r.rec[1], r.made)
    /\ reqs' = Ended(r)
    /\ acked' = acked \cup {r.rec[1]}
    /\ UNCHANGED <<rev, comments, table, clock, old, hb, order, lastGet>>

\* ---- GET /api/hello: { message, timestamp }, no store involved
Hello ==
    /\ Free
    /\ resp' = [NoResp EXCEPT !.op = "HELLO", !.status = 200]
    /\ UNCHANGED <<rev, comments, table, clock, reqs, acked, old, hb, order, lastGet>>

\* a millisecond passes
Tick ==
    /\ clock < MaxClock
    /\ clock' = clock + 1
    /\ resp' = NoResp
    /\ UNCHANGED <<rev, comments, table, reqs, acked, old, hb, order, lastGet>>

\* The server process restarts: the handlers in flight are gone, the module
\* is loaded again (the array is its initial value); the database file stays.
Restart ==
    /\ reqs' = EmptyBag
    /\ resp' = NoResp
    /\ comments' = ReloadModule(comments)
    /\ table' = ReopenDatabase(table)
    /\ lastGet' = <<>>
    /\ IF rev = "mem"
       THEN acked' = {} /\ hb' = {} /\ order' = <<1, 2>> /\ old' = old
       ELSE acked' = acked /\ hb' = hb /\ order' = order /\ old' = acked
    /\ UNCHANGED <<rev, clock>>

\* The API called by clients other than the page (curl, the tutorial's tests).
Next ==
    \/ MemGET /\ PageIdle
    \/ \E b \in Bodies : POSTStart(b) /\ PageIdle
    \/ \E r \in InFlight : MemPOSTResume(r) /\ PageIdle
    \/ DbGETStart /\ PageIdle
    \/ \E r \in InFlight : DbFindMany(r) /\ PageIdle
    \/ \E r \in InFlight : DbFindManyFails(r) /\ PageIdle
    \/ \E r \in InFlight : DbGETReturn(r) /\ PageIdle
    \/ \E r \in InFlight : DbPOSTParse(r) /\ PageIdle
    \/ \E r \in InFlight : DbCreate(r) /\ PageIdle
    \/ \E r \in InFlight : DbCreateFails(r) /\ PageIdle
    \/ \E r \in InFlight : DbPOSTReturn(r) /\ PageIdle
    \/ Hello /\ PageIdle
    \/ Tick /\ PageIdle
    \/ Restart /\ PageIdle

Spec == Init /\ [][Next]_vars

\* ------------------------------------------------- the page and the API
\* the values the user types into the input
Inputs == {"", "hi"}

\* the calls of the page, by number
Calls == 1..Len(calls)

\* fetch('/api/comments') of call k, as the server takes it: the in-memory
\* GET has no await, the persistent one runs up to findMany
GetRequest(k) ==
    [NewReq EXCEPT !.op = "GET", !.from = k, !.seen = acked,
                   !.pc = IF rev = "mem" THEN "start" ELSE "findMany"]

\* fetch('/api/comments', { method: 'POST', body: JSON.stringify({ text }) })
PostRequest(k, text) ==
    [NewReq EXCEPT !.op = "POST", !.from = k, !.pc = "json", !.seen = acked,
                   !.body = [json |-> TRUE, text |-> Str(text)]]

\* the response of the step just taken, on its way to the call that asked
Sent(r) ==
    IF resp'.op = "none" THEN {}
    ELSE {[from |-> r.from, op |-> resp'.op, status |-> resp'.status,
           list |-> resp'.list, rec |-> resp'.rec]}

\* a step of the handler r: what it answers travels to the page
Serve(r) ==
    /\ net' = net \cup Sent(r)
    /\ UNCHANGED <<page, calls>>

\* the response to the POST of call k has arrived
Arrived(k) == {m \in net : m.from = k /\ m.op = "POST"}

\* a handleSubmit that does not wait for its POST
NotAwaited(k) == TRUE

\* await fetch('/api/comments', { method: 'POST', ... }) of call k resolves
Awaited(k) == Arrived(k) # {}

\* setState of a page that still renders
SetState(field, value) ==
    IF page.crashed THEN page
    ELSE [page EXCEPT ![field] = value]

\* useEffect(() => { fetchComments(); }, []): fetchComments up to await fetch
Mount ==
    /\ ~page.mounted
    /\ Free
    /\ page' = [page EXCEPT !.mounted = TRUE]
    /\ calls' = Append(calls, NewCall)
    /\ reqs' = Started(GetRequest(Len(calls) + 1))
    /\ resp' = NoResp
    /\ UNCHANGED <<rev, comments, table, clock, acked, old, hb, order, lastGet, net>>

\* onChange={(e) => setNewComment(e.target.value)}
OnChange(v) ==
    /\ page.mounted /\ ~page.crashed
    /\ page.newComment # v
    /\ page' = SetState("newComment", v)
    /\ resp' = NoResp
    /\ UNCHANGED <<rev, comments, table, clock, reqs, acked, old, hb, order, lastGet, calls, net>>

\* handleSubmit up to `await fetch(..., { method: 'POST', ... })`: the body
\* carries the state newComment of this render
HandleSubmit ==
    /\ page.mounted /\ ~page.crashed
    /\ Len(calls) <= MaxSubmit
    /\ Free
    /\ calls' = Append(calls, [NewCall EXCEPT !.fn = "handleSubmit", !.pc = "post",
                                              !.text = page.newComment])
    /\ reqs' = Started(PostRequest(Len(calls) + 1, page.newComment))
    /\ resp' = NoResp
    /\ UNCHANGED <<rev, comments, table, clock, acked, old, hb, order, lastGet, page, net>>

\* handleSubmit after its await: setNewComment(''), then fetchComments() up
\* to its await fetch.  fetch resolves on every status, 400 and 500 too.
HandleSubmitResume(k) ==
    /\ calls[k].fn = "handleSubmit" /\ calls[k].pc = "post"
    /\ Awaited(k)
    /\ Free
    /\ page' = SetState("newComment", "")
    /\ calls' = [calls EXCEPT ![k].pc = "get",
                              ![k].status = IF Arrived(k) = {} THEN 0
                                            ELSE (CHOOSE m \in Arrived(k) : TRUE).status,
                              ![k].rec = IF Arrived(k) = {} THEN <<>>
                                         ELSE (CHOOSE m \in Arrived(k) : TRUE).rec]
    /\ net' = net \ Arrived(k)
    /\ reqs' = Started(GetRequest(k))
    /\ resp' = NoResp
    /\ UNCHANGED <<rev, comments, table, clock, acked, old, hb, order, lastGet>>

\* fetchComments after its awaits: const data = await response.json();
\* setComments(data).  The body of a 500 is { error }, not an array: the
\* render's comments.map throws and the page shows an error from then on.
FetchCommentsResume(m) ==
    /\ m.op = "GET"
    /\ calls[m.from].pc = "get"
    /\ page' = IF page.crashed THEN page
               ELSE IF m.status = 200
               THEN [page EXCEPT !.comments = m.list, !.last = m.from]
               ELSE [page EXCEPT !.comments = <<>>, !.last = m.from, !.crashed = TRUE]
    /\ calls' = [calls EXCEPT ![m.from].pc = "done", ![m.from].got = m.status]
    /\ net' = net \ {m}
    /\ resp' = NoResp
    /\ UNCHANGED <<rev, comments, table, clock, reqs, acked, old, hb, order, lastGet>>

\* ---- in-memory revision: GET() for a request of the page
\* return NextResponse.json(comments)
MemGETServe(r) ==
    /\ rev = "mem"
    /\ r.op = "GET" /\ r.pc = "start"
    /\ resp' = Respond200(comments, r.seen, Len(comments))
    /\ lastGet' = Listed(comments, r.seen, Len(comments))
    /\ reqs' = Ended(r)
    /\ UNCHANGED <<rev, comments, table, clock, acked, old, hb, order>>

\* The server restarts under the page: the fetch of every call whose request
\* was being handled rejects, and the call ends there (nothing catches it).
Rejected ==
    /\ calls' = [k \in Calls |->
                    [calls[k] EXCEPT !.restarted = TRUE,
                                     !.pc = IF \E r \in InFlight : r.from = k
                                            THEN "rejected" ELSE @]]
    /\ UNCHANGED <<page, net>>

\* The page in a browser and the API that serves it, no other client.
PageNext ==
    \/ Mount
    \/ \E v \in Inputs : OnChange(v)
    \/ HandleSubmit
    \/ \E k \in Calls : HandleSubmitResume(k)
    \/ \E m \in net : FetchCommentsResume(m)
    \/ \E r \in InFlight : MemGETServe(r) /\ Serve(r)
    \/ \E r \in InFlight : MemPOSTResume(r) /\ Serve(r)
    \/ \E r \in InFlight : DbFindMany(r) /\ Serve(r)
    \/ \E r \in InFlight : DbFindManyFails(r) /\ Serve(r)
    \/ \E r \in InFlight : DbGETReturn(r) /\ Serve(r)
    \/ \E r \in InFlight : DbPOSTParse(r) /\ Serve(r)
    \/ \E r \in InFlight : DbCreate(r) /\ Serve(r)
    \/ \E r \in InFlight : DbCreateFails(r) /\ Serve(r)
    \/ \E r \in InFlight : DbPOSTReturn(r) /\ Serve(r)
    \/ Tick /\ PageIdle
    \/ Restart /\ Rejected

SpecPage == Init /\ [][PageNext]_vars

\* ================================================================ claims

\* the record r is in the listing, with its id and its text
InList(r, list) == \E i \in 1..Len(list) : list[i].id = r.id /\ list[i].text = r.text

\* the step just taken ended a GET /comments with 200
Listing == resp.op = "GET" /\ resp.status = 200

\* the step just taken ended a POST /comments
Posted == resp.op = "POST"

\* C1: read-your-writes.  Every record a POST returned with 201 before a GET
\* started (resp.seen: the records acked at the GET's start, on the same store)
\* is in the sequence that GET returns, with the returned id and text,
\* whatever appends and lists were interleaved.
C1_ReadYourWrites ==
    Listing => \A r \in resp.seen : InList(r, resp.list)

\* C1's case: a listing that started after a 201, with another request in flight
C1_Witness ==
    /\ Listing
    /\ resp.seen # {}
    /\ \E r \in InFlight : r.op = "POST"

\* C2: a POST whose text is absent (body {}) or "" answers 400 with
\* { error: "Comment text is required" }, creates no record, and the step that
\* answers leaves the collection as it was.
C2_EmptyTextRejected ==
    [][ (resp'.op = "POST" /\ resp'.body.json /\ resp'.body.text \in {Undefined, Str("")})
        => /\ resp'.status = 400
           /\ resp'.error = "Comment text is required"
           /\ resp'.rec = <<>>
           /\ resp'.made = 0
           /\ comments' = comments
           /\ table' = table ]_vars

\* C2's case: the empty text has been rejected by a store that holds appended records
C2_Witness ==
    /\ Posted
    /\ resp.body.text = Str("")
    /\ resp.status = 400
    /\ StoreSize > 2

\* the backing store failed under this response
StoreFailed == resp.error = "Failed to fetch comments: PrismaClientKnownRequestError"

C4_UniqueIds ==
    /\ \A i \in 1..Len(comments) : \A j \in 1..Len(comments) :
          comments[i].id = comments[j].id => i = j
    /\ \A r \in table : \A q \in table : r.id = q.id => r = q

\* C4's case: two records have been appended to the seeded table
C4_Witness ==
    /\ rev = "db"
    /\ Cardinality(table) = 4

\* cs is an initial part of ds
IsPrefix(cs, ds) == Len(cs) <= Len(ds) /\ \A i \in 1..Len(cs) : cs[i] = ds[i]

\* the step is one of an operation of the API (a handler started, advanced or
\* answered), not a tick of the clock or a restart of the process
OperationStep == resp'.op # "none" \/ reqs' # EmptyBag

\* the step restarts the process: every handler is gone and nothing is answered
RestartStep == clock' = clock /\ resp'.op = "none" /\ reqs' = EmptyBag

\* C5: the collection is append-only.  No step removes or changes a row of
\* the table; no operation removes or changes an element of the array; a
\* step of a listing, a step that answers a rejected append (400, 500) and
\* GET /hello leave the collection as it is.
C5_AppendOnly ==
    [][ /\ table \subseteq table'
        /\ OperationStep => IsPrefix(comments, comments')
        /\ (resp'.op \in {"GET", "HELLO"} \/ resp'.status \in {400, 500})
              => (comments' = comments /\ table' = table)
        /\ (\E r \in BagToSet(reqs') : r.op = "GET" /\ CopiesIn(r, reqs') > CopiesIn(r, reqs))
              => (comments' = comments /\ table' = table) ]_vars

\* C5's case: a listing returns the two initial records and two appended ones
C5_Witness ==
    /\ Listing
    /\ ~resp.eq
    /\ Len(resp.list) = 4
    /\ \A i \in 1..2 : InList(InitialComments[i], resp.list)

\* the record of id x comes before the record of id y in the listing
Before(list, x, y) == \E i \in 1..Len(list) : \E j \in 1..Len(list) : i < j /\ list[i].id = x /\ list[j].id = y

\* C6: a listing is ordered by createdAt descending in the persistent
\* revision, and in insertion order in the in-memory revision (order: the
\* ids in the order their records were pushed).
C6_ListOrder ==
    Listing =>
        IF rev = "db"
        THEN \A i \in 1..Len(resp.list) - 1 : resp.list[i].createdAt >= resp.list[i + 1].createdAt
        ELSE \A i \in 1..Len(resp.list) : \A j \in 1..Len(resp.list) :
                 i < j => \E k \in 1..Len(order) : \E l \in 1..Len(order) :
                              k < l /\ order[k] = resp.list[i].id /\ order[l] = resp.list[j].id

\* C6's case: a listing of rows created at different times
C6_Witness ==
    /\ rev = "db"
    /\ Listing
    /\ Len(resp.list) = 4
    /\ resp.list[1].createdAt > resp.list[4].createdAt

\* the listing holds every record of the store that was read, each once
AllOnce ==
    /\ Len(resp.list) = resp.size
    /\ \A i \in 1..Len(resp.list) : \A j \in 1..Len(resp.list) : resp.list[i] = resp.list[j] => i = j
    /\ rev = "db" => \A i \in 1..Len(resp.list) : resp.list[i] \in table
    /\ rev = "mem" => \A i \in 1..Len(resp.list) : resp.list[i] = comments[i]

\* the appends of a and b both show in the listing, a's having returned
\* before b's started
Successive(a, b) == <<a, b>> \in hb /\ a \in Ids({resp.list[i] : i \in 1..Len(resp.list)}) /\ b \in Ids({resp.list[i] : i \in 1..Len(resp.list)})

\* createdAt of the listed row of id x
CreatedAtOf(x) == (CHOOSE r \in {resp.list[i] : i \in 1..Len(resp.list)} : r.id = x).createdAt

\* C7 as stated: a listing holds every comment once, and of two appends of
\* which the first returned before the second started, the second's record
\* comes first.
C7_Original ==
    Listing =>
        /\ AllOnce
        /\ \A a \in Ids(acked) : \A b \in Ids(acked) : Successive(a, b) => Before(resp.list, b, a)

\* C7, amended: a listing holds every comment of the store once, none left
\* out; of two appends A, B with A returned before B started, the persistent
\* revision lists B first whenever B's createdAt is later than A's, and the
\* in-memory revision lists A first.
C7_AllListed ==
    Listing =>
        /\ AllOnce
        /\ \A a \in Ids(acked) : \A b \in Ids(acked) :
              Successive(a, b) =>
                  IF rev = "db"
                  THEN CreatedAtOf(b) > CreatedAtOf(a) => Before(resp.list, b, a)
                  ELSE Before(resp.list, a, b)

\* C7's case: a listing shows two appends of which one returned before the other started
C7_Witness ==
    /\ Listing
    /\ \E a \in Ids(acked) : \E b \in Ids(acked) : Successive(a, b)

\* C8 as stated: two listings with no append completing between them (no 201
\* from the start of either to the end of the second) are identical.
C8_Original ==
    (Listing /\ resp.quiet) => resp.eq

\* C8, amended: two listings between whose reads of the store no record was
\* created (both read equally many records of the append-only store) are
\* identical sequences.
C8_Idempotent ==
    (Listing /\ resp.same) => resp.eq

\* C8's case: a second listing of a store that holds appended records
C8_Witness ==
    /\ Listing
    /\ resp.same
    /\ resp.eq
    /\ Len(resp.list) > 2

\* C9: in the persistent revision every record returned with 201 before a
\* restart (old) is in every listing after it, and a restart leaves the table
\* as it is; in the in-memory revision a restart resets the array to its
\* initial contents.
C9_Persistence ==
    /\ []((rev = "db" /\ Listing) => \A r \in old : InList(r, resp.list))
    /\ [][RestartStep => IF rev = "db" THEN table' = table ELSE comments' = InitialComments]_vars

\* C9's case: a listing after a restart that followed a 201
C9_Witness ==
    /\ rev = "db"
    /\ Listing
    /\ old # {}

\* C10 as stated, for two POST handlers suspended together at request.json():
\* the one that resumes second (raced) has read the length the first read,
\* and two records of the array carry the same id.
C10_Original ==
    (rev = "mem" /\ Posted /\ resp.status = 201 /\ resp.raced)
        => \E i \in 1..Len(comments) : \E j \in 1..Len(comments) :
               i # j /\ comments[i].id = comments[j].id

\* C10, amended: of two POST handlers suspended together, the one that
\* resumes second reads the length the first left: its record has the id of
\* its place in the array and no other record has that id.
C10_NoRace ==
    (rev = "mem" /\ Posted /\ resp.status = 201 /\ resp.raced)
        => /\ resp.rec[1].id = Len(comments)
           /\ comments[Len(comments)] = resp.rec[1]
           /\ \A i \in 1..Len(comments) - 1 : comments[i].id # resp.rec[1].id

\* C10's case: the second of two handlers suspended together has pushed
C10_Witness ==
    /\ rev = "mem"
    /\ Posted
    /\ resp.status = 201
    /\ resp.raced
    /\ Len(comments) = 4

UnderWay(k, op) ==
    \/ \E r \in InFlight : r.from = k /\ r.op = op
    \/ \E m \in net : m.from = k /\ m.op = op

\* the submissions among the calls of the page
Submissions == {k \in Calls : calls[k].fn = "handleSubmit"}

\* the list on display was set by the refresh of submission k, answered 200
Refreshed(k) ==
    /\ calls[k].pc = "done"
    /\ calls[k].got = 200
    /\ page.last = k
    /\ ~page.crashed

\* C12: a submission sends POST with text = the input's value at the submit;
\* the step that clears the input and sends the refreshing GET consumes the
\* POST's response; no GET of a submission is under way before its POST has
\* been answered; a list set by the refresh of a submission answered 201
\* holds the returned record (on the store that answered: the persistent
\* one, or the in-memory one not restarted since), and a list set by the
\* refresh of a submission answered 400 or 500 holds no entry of it: the
\* entries beyond the initial two are at most one per other submission.
C12_SubmitThenRefresh ==
    /\ [][ /\ (Len(calls') > Len(calls) /\ calls'[Len(calls')].fn = "handleSubmit")
               => \E r \in BagToSet(reqs') :
                     /\ r.from = Len(calls') /\ r.op = "POST"
                     /\ r.body = [json |-> TRUE, text |-> Str(page.newComment)]
           /\ \A k \in Calls :
                 (calls[k].pc = "post" /\ calls'[k].pc = "get")
                    => /\ \E m \in net : m.from = k /\ m.op = "POST" /\ m \notin net'
                                          /\ calls'[k].status = m.status
                       /\ ~page.crashed => page'.newComment = ""
                       /\ \E r \in BagToSet(reqs') : r.from = k /\ r.op = "GET" ]_vars
    /\ [](\A k \in Submissions :
            /\ UnderWay(k, "GET") => (calls[k].status \in {201, 400, 500} /\ ~UnderWay(k, "POST"))
            /\ calls[k].pc \in {"get", "done"} => calls[k].status \in {201, 400, 500}
            /\ (Refreshed(k) /\ calls[k].status = 201 /\ (rev = "db" \/ ~calls[k].restarted))
                  => (Len(calls[k].rec) = 1 /\ InList(calls[k].rec[1], page.comments))
            /\ (Refreshed(k) /\ calls[k].status \in {400, 500})
                  => /\ calls[k].rec = <<>>
                     /\ Len(page.comments) <= 2 + Cardinality(Submissions \ {k}))

\* C12's case: the refresh of a submission answered 201 has set the list
\* while another submission, answered 400, was waiting for its own refresh
C12_Witness ==
    \E k \in Submissions : \E j \in Submissions :
        /\ Refreshed(k)
        /\ calls[k].status = 201
        /\ InList(calls[k].rec[1], page.comments)
        /\ calls[j].status = 400
        /\ calls[j].pc = "get"

\* listAll() on the store as it is now
StoreList == IF rev = "mem" THEN comments ELSE FindMany(table)

\* every request of the page has completed: nothing is handled, nothing is
\* on its way, every call has run to its end with 200 from its GET, and the
\* server has not restarted under any of them
Settled ==
    /\ Submissions # {}
    /\ reqs = EmptyBag
    /\ net = {}
    /\ \A k \in Calls : calls[k].pc = "done" /\ calls[k].got = 200 /\ ~calls[k].restarted

\* C13: once every request of the page has completed, the list the page
\* displays, set by the refresh of one of its submissions, is the store's
\* current listing: no comment the page submitted with success is missing.
C13_Original ==
    (Settled /\ page.last \in Submissions)
        => /\ page.comments = StoreList
           /\ \A k \in Submissions : calls[k].status = 201 => InList(calls[k].rec[1], page.comments)

====
